---- MODULE Spec2Model ----
(***************************************************************************)
(* A model of the TAC case bot (src/bot/bot.py): the Flask endpoints, the  *)
(* command dispatcher, the ten case-data handlers, the configuration       *)
(* holder and the webhook create-or-update against the messaging platform. *)
(*                                                                         *)
(* A message text is a sequence of atoms: a command identifier, a case     *)
(* number, or a plain word.  "Occurs as a substring" is "occurs as an atom *)
(* of the sequence"; no command identifier is a substring of another, so   *)
(* the atoms keep the outcome of str.find for every identifier.            *)
(*                                                                         *)
(* The command table is a dict literal; its items() are taken in insertion *)
(* order, as Python 3.7 and later guarantee.                               *)
(*                                                                         *)
(* Each endpoint is one action that runs the whole handler.  Requests are  *)
(* served one at a time: an endpoint action needs req.op = "none", and     *)
(* Respond hands the response back and clears the per-request trace.       *)
(***************************************************************************)
EXTENDS Integers, Sequences, FiniteSets, TLC

VARIABLES
    pc,           \* "main" before lines 938-943 ran, then "serving" or "crashed"
    bot_email,    \* global bot_email
    spark_token,  \* global spark_token
    spark,        \* global spark: None or the connection handle
    webhook,      \* global webhook: None or the registration returned by setup_webhook
    hooks,        \* upstream: the webhook registrations of the platform, in list order
    rooms,        \* upstream: the conversations of the platform, index = room id
    last_set,     \* history: the (email, token) of the latest spark_setup call
    req,          \* the request being served, [op |-> "none"] when idle
    resp,         \* its HTTP response
    out,          \* the spark.messages.create calls it made, in order
    calls,        \* the other platform, backend and utility calls it made, in order
    ran,          \* the command handlers it ran, in order
    reads         \* the case-record fields it tried to read, in order

vars == <<pc, bot_email, spark_token, spark, webhook, hooks, rooms, last_set,
          req, resp, out, calls, ran, reads>>

cfgvars == <<pc, bot_email, spark_token, spark, webhook, hooks, last_set>>

----------------------------------------------------------------------------
(* Bounds *)

MaxLen == 2        \* atoms in a message text
MaxHooks == 3      \* webhook registrations the platform holds
MaxRooms == 2      \* conversations the platform holds

----------------------------------------------------------------------------
(* Values *)

Unset == "None"                      \* os.getenv of a missing variable
None == [kind |-> "None"]            \* Python None for object-valued globals
NoReq == [op |-> "none"]
NoResp == [kind |-> "none"]

bot_url == "http://bot.example.com"  \* SPARK_BOT_URL
bot_app_name == "tac bot"            \* SPARK_BOT_APP_NAME
OtherAppName == "some other app"
OldUrl == "http://old.example.com"
FeedbackRoom == "feedback-room"      \* os.environ FEEDBACK_ROOM

Tokens == {"tokA", "tokB"}
BotEmails == {"bot@sparkbot.io", "bot2@sparkbot.io"}

\* The command table, in declared order: <<identifier, help text>>.
commands ==
    << <<"/title", "Get title for TAC case.">>,
       <<"/description", "Get problem description for the TAC case.">>,
       <<"/owner", "Get case owner (TAC CSE) for TAC case.">>,
       <<"/contract", "Get contract number associated with the TAC case.">>,
       <<"/customer", "Get customer contact info for the TAC case.">>,
       <<"/status", "Get status and severity for the TAC case.">>,
       <<"/rma", "Get list of RMAs associated with TAC case.">>,
       <<"/device", "Get serial number and hostname for the device on which the TAC case was opened">>,
       <<"/created", "Get the date on which the TAC case was created, and calculate the open duration">>,
       <<"/updated", "Get the date on which the TAC case was last updated, and calculate the time since last update">>,
       <<"/feedback", "Sends feedback to development team; use this to submit feature requests and bugs">>,
       <<"/echo", "Reply back with the same message sent.">>,
       <<"/help", "Get help.">>,
       <<"/test", "Print test message.">> >>

CommandIds == {commands[i][1] : i \in 1..Len(commands)}

CaseCommands == {"/title", "/description", "/owner", "/contract", "/customer",
                 "/status", "/rma", "/device", "/created", "/updated"}

CaseNumbers == {"600000001", "600000002"}
Words == {"please"}
Atoms == CommandIds \cup CaseNumbers \cup Words

\* Sequences of at most n elements of S.
SeqUpTo(S, n) == UNION {[1..k -> S] : k \in 0..n}

Texts == SeqUpTo(Atoms, MaxLen)

\* People of the platform: person id -> email as <<local part, domain>>.
PersonIds == {"p-bot", "p-cisco", "p-guest"}
PersonEmail(p) ==
    CASE p = "p-bot" -> <<"bot", "sparkbot.io">>
      [] p = "p-cisco" -> <<"alice", "cisco.com">>
      [] OTHER -> <<"bob", "example.com">>

EmailStr(e) == e[1] \o "@" \o e[2]

\* spark.people.me().emails: the emails of the account the token belongs to.
MeEmails == {PersonEmail("p-bot")}

\* Display names of the conversation a message arrives in.
RoomNames == {<<"please">>, <<"please", "600000002">>}

----------------------------------------------------------------------------
(* JSON values of a case record, and the values get_case_details returns *)

JNull == [t |-> "null"]
Str(s) == [t |-> "str", v |-> s]
List(l) == [t |-> "list", v |-> l]
Obj(r) == [t |-> "obj", v |-> r]
Date(d, h) == [t |-> "date", d |-> d, h |-> h]   \* 'YYYY-MM-DDTHH:MM:SSZ': day d, hour h

\* Python truth value of a JSON value.
Truthy(x) ==
    CASE x.t = "null" -> FALSE
      [] x.t = "str" -> x.v # ""
      [] x.t = "list" -> Len(x.v) > 0
      [] x.t = "obj" -> DOMAIN x.v # {}
      [] OTHER -> TRUE

\* str.format of a JSON value, as a sequence of text segments.
RECURSIVE JoinList(_)
JoinList(l) ==
    IF Len(l) = 0 THEN <<>>
    ELSE IF Len(l) = 1 THEN <<"'", l[1], "'">>
    ELSE <<"'", l[1], "'", ", ">> \o JoinList(Tail(l))

Render(x) ==
    CASE x.t = "null" -> <<"None">>
      [] x.t = "str" -> <<x.v>>
      [] x.t = "list" -> <<"[">> \o JoinList(x.v) \o <<"]">>
      [] OTHER -> <<"?">>

\* What get_case_details returns: a case record (the CASE_DETAIL fields under
\* RESPONSE.CASES), or a value that says "no such case".
CaseNone == [t |-> "null"]       \* None
CaseFalse == [t |-> "false"]     \* False
CaseEmpty == [t |-> "empty"]     \* {}
Case(detail) == [t |-> "case", v |-> detail]

CaseTruthy(cd) == cd.t = "case"

Now == 2400        \* datetime.now(), in hours

FullDetail ==
    [TITLE |-> Str("Router down"),
     PROBLEM_DESC |-> Str("It is down"),
     OWNER_USER_ID |-> Str("cse1"),
     OWNER_FIRST_NAME |-> Str("Carol"),
     OWNER_LAST_NAME |-> Str("Cse"),
     OWNER_EMAIL_ADDRESS |-> Str("carol@cisco.com"),
     CONTRACT_ID |-> Str("C-42"),
     CONTACT_USER_ID |-> Str("cust1"),
     CONTACT_USER_FIRST_NAME |-> Str("Dan"),
     CONTACT_USER_LAST_NAME |-> Str("Customer"),
     CONTACT_EMAIL_IDS |-> Obj([ID |-> Str("dan@example.com")]),
     CONTACT_BUSINESS_PHONE_NUMBERS |-> Obj([ID |-> Str("+1 555 0100")]),
     CONTACT_MOBILE_PHONE_NUMBERS |-> JNull,
     STATUS |-> Str("Customer Updated"),
     SEVERITY |-> Str("3"),
     RMAS |-> Obj([ID |-> List(<<"A1", "A2">>)]),
     SERIAL_NUMBER |-> Str("FOC1234"),
     DEVICE_NAME |-> Str("edge-1"),
     CREATION_DATE |-> Date(90, 0),
     UPDATED_DATE |-> Date(96, 23)]

CaseResults == {CaseNone, CaseFalse, CaseEmpty, Case(FullDetail)}

----------------------------------------------------------------------------
(* utilities.py: the helpers bot.py imports *)

False == "False"

Contains(text, tok) == \E k \in 1..Len(text) : text[k] = tok

FirstIndex(text, S) ==
    CHOOSE k \in 1..Len(text) : text[k] \in S /\ \A j \in 1..(k - 1) : text[j] \notin S

RemoveAt(text, k) == [i \in 1..(Len(text) - 1) |-> IF i < k THEN text[i] ELSE text[i + 1]]

\* The text with the first occurrence of the command token removed, trimmed;
\* the text itself when the token does not occur.
extract_message(command, text) ==
    IF Contains(text, command) THEN RemoveAt(text, FirstIndex(text, {command}))
    ELSE text

\* The case number the text holds, or False.
get_case_number(text) ==
    IF \E k \in 1..Len(text) : text[k] \in CaseNumbers
    THEN text[FirstIndex(text, CaseNumbers)]
    ELSE False

get_email(person_id) == PersonEmail(person_id)

check_cisco_user(email) == email[2] = "cisco.com"

----------------------------------------------------------------------------
(* Field formatting of the case-data handlers, once a record is held.       *)
(* A result is [reply, reads, raised]: the reply text as segments, the      *)
(* record fields the handler tried to read, and whether it raised.          *)

EmphasisDays == 3

Ok(reply, rd) == [reply |-> reply, reads |-> rd, raised |-> FALSE]
Raise(rd) == [reply |-> <<>>, reads |-> rd, raised |-> TRUE]

\* case_details['RESPONSE']['CASES']['CASE_DETAIL'][f] succeeds.
Has(cd, f) == cd.t = "case" /\ f \in DOMAIN cd.v

Missing(cd, fields) == {k \in 1..Len(fields) : ~Has(cd, fields[k])}

\* The reads made until the first one that raises, that one included.
ReadPrefix(cd, fields) ==
    IF Missing(cd, fields) = {} THEN fields
    ELSE SubSeq(fields, 1, CHOOSE k \in Missing(cd, fields) :
                               \A j \in Missing(cd, fields) : k <= j)

IsStr(x) == x.t = "str"

\* datetime.strptime(x, '%Y-%m-%dT%H:%M:%SZ'), as hours.
strptime(x) == x.d * 24 + x.h

\* str(datetime) and str(timedelta), as segments.
RenderDate(x) == <<"day ", ToString(x.d), " ", ToString(x.h), ":00:00">>
RenderDelta(h) ==
    LET d == h \div 24
        r == h % 24
    IN IF d = 0 THEN <<ToString(r), ":00:00">>
       ELSE <<ToString(d), IF d = 1 \/ d = -1 THEN " day, " ELSE " days, ",
              ToString(r), ":00:00">>

FormatTitle(sr, cd) ==
    LET fs == <<"TITLE">>
    IN IF Missing(cd, fs) # {} THEN Raise(ReadPrefix(cd, fs))
       ELSE Ok(<<"Title for SR ", sr, " is: ">> \o Render(cd.v.TITLE), fs)

FormatDescription(sr, cd) ==
    LET fs == <<"PROBLEM_DESC">>
    IN IF Missing(cd, fs) # {} THEN Raise(ReadPrefix(cd, fs))
       ELSE Ok(<<"Problem description for SR ", sr, " is: <br>">>
               \o Render(cd.v.PROBLEM_DESC), fs)

FormatOwner(sr, cd) ==
    LET fs == <<"OWNER_USER_ID", "OWNER_FIRST_NAME", "OWNER_LAST_NAME",
                "OWNER_EMAIL_ADDRESS">>
    IN IF Missing(cd, fs) # {} THEN Raise(ReadPrefix(cd, fs))
       ELSE Ok(<<"Case owner for SR ", sr, " is: ">> \o Render(cd.v.OWNER_FIRST_NAME)
               \o <<" ">> \o Render(cd.v.OWNER_LAST_NAME) \o <<" (">>
               \o Render(cd.v.OWNER_EMAIL_ADDRESS) \o <<")">>, fs)

FormatContract(sr, cd) ==
    LET fs == <<"CONTRACT_ID">>
    IN IF Missing(cd, fs) # {} THEN Raise(ReadPrefix(cd, fs))
       ELSE Ok(<<"The contract number used to open SR ", sr, " is: ">>
               \o Render(cd.v.CONTRACT_ID), fs)

FormatStatus(sr, cd) ==
    LET fs == <<"STATUS", "SEVERITY">>
    IN IF Missing(cd, fs) # {} THEN Raise(ReadPrefix(cd, fs))
       ELSE Ok(<<"Status for SR ", sr, " is ">> \o Render(cd.v.STATUS)
               \o <<" and Severity is ">> \o Render(cd.v.SEVERITY), fs)

FormatRma(sr, cd) ==
    IF ~Has(cd, "RMAS") THEN Raise(<<"RMAS">>)
    ELSE IF ~Truthy(cd.v.RMAS) THEN Ok(<<"There are no RMAs for SR ", sr>>, <<"RMAS">>)
    ELSE IF ~(cd.v.RMAS.t = "obj" /\ "ID" \in DOMAIN cd.v.RMAS.v)
         THEN Raise(<<"RMAS", "RMAS">>)
    ELSE LET case_rmas == cd.v.RMAS.v.ID
         IN IF case_rmas.t = "list"
            THEN Ok(<<"The RMAs for SR ", sr, " are: ">> \o Render(case_rmas),
                    <<"RMAS", "RMAS">>)
            ELSE Ok(<<"The RMA for SR ", sr, " is: ">> \o Render(case_rmas),
                    <<"RMAS", "RMAS">>)

FormatDevice(sr, cd) ==
    IF ~Has(cd, "SERIAL_NUMBER") THEN Raise(<<"SERIAL_NUMBER">>)
    ELSE LET device_serial == cd.v.SERIAL_NUMBER
             device_hostname == IF Has(cd, "DEVICE_NAME") THEN cd.v.DEVICE_NAME ELSE JNull
             first == IF Truthy(device_serial)
                      THEN <<"Device serial number for SR ", sr, " is: ">>
                           \o Render(device_serial)
                      ELSE <<"Device serial number not provided">>
             second == IF Truthy(device_hostname)
                       THEN <<"<br>Device hostname is ">> \o Render(device_hostname)
                       ELSE <<"<br>Device hostname not provided">>
         IN Ok(first \o second, <<"SERIAL_NUMBER", "DEVICE_NAME">>)

\* One optional contact group: the ['ID'] of a truthy group, else False.
ContactId(x) == IF Truthy(x) THEN x.v.ID ELSE [t |-> "false"]
ContactOk(x) == ~Truthy(x) \/ (x.t = "obj" /\ "ID" \in DOMAIN x.v)
ContactTruthy(x) == x.t # "false" /\ Truthy(x)

\* Mutant of AppendIf: the conditional binds tighter than the concatenation,
\* message + (label + x if x else message).
AppendIfInner(message, label, x) ==
    message \o (IF ContactTruthy(x) THEN <<label, x.v>> ELSE message)

\* message = message + label + x if x else message: the conditional
\* expression binds loosest, so the whole sum is its first branch.
AppendIf(message, label, x) ==
    IF ContactTruthy(x) THEN message \o <<label, x.v>> ELSE message

FormatCustomer(sr, cd) ==
    LET fs == <<"CONTACT_USER_ID", "CONTACT_USER_FIRST_NAME", "CONTACT_USER_LAST_NAME",
                "CONTACT_EMAIL_IDS", "CONTACT_BUSINESS_PHONE_NUMBERS",
                "CONTACT_MOBILE_PHONE_NUMBERS">>
    IN IF Missing(cd, fs) # {} THEN Raise(ReadPrefix(cd, fs))
       ELSE LET id == cd.v.CONTACT_USER_ID
                first == cd.v.CONTACT_USER_FIRST_NAME
                last == cd.v.CONTACT_USER_LAST_NAME
                email == cd.v.CONTACT_EMAIL_IDS
                business == cd.v.CONTACT_BUSINESS_PHONE_NUMBERS
                mobile == cd.v.CONTACT_MOBILE_PHONE_NUMBERS
            IN IF ~(ContactOk(email) /\ ContactOk(business) /\ ContactOk(mobile))
               THEN Raise(fs)
               ELSE LET e == ContactId(email)
                        b == ContactId(business)
                        m == ContactId(mobile)
                        \* str + value raises unless the value is a str
                        typed == IsStr(first) /\ IsStr(last)
                                 /\ (Truthy(id) => IsStr(id))
                                 /\ (ContactTruthy(e) => IsStr(e))
                                 /\ (ContactTruthy(b) => IsStr(b))
                                 /\ (ContactTruthy(m) => IsStr(m))
                        m0 == <<"Customer contact for SR ", sr, " is: <br>">>
                        m1 == m0 \o <<first.v, " ", last.v>>
                        m2 == AppendIf(m1, "<br>CCO ID: ", id)
                        m3 == AppendIf(m2, "<br>Email: ", e)
                        m4 == AppendIf(m3, "<br>Business phone: ", b)
                        m5 == AppendIf(m4, "<br>Mobile phone: ", m)
                    IN IF typed THEN Ok(m5, fs) ELSE Raise(fs)

FormatCreated(sr, cd, now) ==
    IF ~Has(cd, "CREATION_DATE") THEN Raise(<<"CREATION_DATE">>)
    ELSE IF cd.v.CREATION_DATE.t # "date" THEN Raise(<<"CREATION_DATE">>)
    ELSE IF ~Has(cd, "STATUS") THEN Raise(<<"CREATION_DATE", "STATUS">>)
    ELSE LET case_create_date == strptime(cd.v.CREATION_DATE)
             message == <<"Creation date for SR ", sr, " is: ">>
                        \o RenderDate(cd.v.CREATION_DATE)
             time_delta == now - case_create_date
         IN Ok(IF cd.v.STATUS # Str("Closed")
               THEN message \o <<"<br>Case has been open for ">> \o RenderDelta(time_delta)
               ELSE message,
               <<"CREATION_DATE", "STATUS">>)

\* Mutant of Emphasised: three days to the hour are emphasised too.
EmphasisedFromThreeDays(time_delta) == time_delta >= EmphasisDays * 24

\* time_delta > timedelta(3), in hours.
Emphasised(time_delta) == time_delta > EmphasisDays * 24

FormatUpdated(sr, cd, now) ==
    IF ~Has(cd, "UPDATED_DATE") THEN Raise(<<"UPDATED_DATE">>)
    ELSE IF cd.v.UPDATED_DATE.t # "date" THEN Raise(<<"UPDATED_DATE">>)
    ELSE IF ~Has(cd, "STATUS") THEN Raise(<<"UPDATED_DATE", "STATUS">>)
    ELSE LET case_update_date == strptime(cd.v.UPDATED_DATE)
             message == <<"Last update for SR ", sr, " was: ">>
                        \o RenderDate(cd.v.UPDATED_DATE)
             time_delta == now - case_update_date
         IN Ok(IF cd.v.STATUS = Str("Closed")
               THEN message \o <<"<br>Case is closed, ">> \o RenderDelta(time_delta)
                            \o <<" since case closure">>
               ELSE IF Emphasised(time_delta)
               THEN message \o <<"<br><b>">> \o RenderDelta(time_delta)
                            \o <<" since last update</b>">>
               ELSE message \o <<"<br>">> \o RenderDelta(time_delta)
                            \o <<" since last update">>,
               <<"UPDATED_DATE", "STATUS">>)

Format(cmd, sr, cd) ==
    CASE cmd = "/title" -> FormatTitle(sr, cd)
      [] cmd = "/description" -> FormatDescription(sr, cd)
      [] cmd = "/owner" -> FormatOwner(sr, cd)
      [] cmd = "/contract" -> FormatContract(sr, cd)
      [] cmd = "/customer" -> FormatCustomer(sr, cd)
      [] cmd = "/status" -> FormatStatus(sr, cd)
      [] cmd = "/rma" -> FormatRma(sr, cd)
      [] cmd = "/device" -> FormatDevice(sr, cd)
      [] cmd = "/created" -> FormatCreated(sr, cd, Now)
      [] cmd = "/updated" -> FormatUpdated(sr, cd, Now)

----------------------------------------------------------------------------
(* The ten case-data handlers.  They share one shape (send_title); the      *)
(* places where a handler departs from it are StripToken, CaseAbsent and    *)
(* the two branches of ResolveCase.                                         *)

AccessLimited == <<"Sorry, CASE API access is limited to Cisco Employees for the time being">>
NoCaseNumber == <<"Sorry, no case number was found.">>
NoValidCaseNumber == <<"No valid case number provided.">>
NoCaseFound(sr) == <<"No case was found for SR ", sr>>

\* The token the handler of cmd passes to extract_message.
StripToken(cmd) == IF cmd = "/status" THEN "/title" ELSE cmd

\* The handler's test for "the backend has no such case".
CaseAbsent(cmd, cd) == IF cmd = "/device" THEN cd.t = "null" ELSE ~CaseTruthy(cd)

\* The case number from the conversation's display name.
ResolveFromRoom(room_name) ==
    LET case_number == get_case_number(room_name)
    IN [sr |-> case_number,
        calls |-> <<"get_room_name", "get_case_number">>,
        reply |-> IF case_number = False THEN NoCaseNumber ELSE <<>>]

\* The case number a handler settles on: [sr, calls, reply], sr = False and
\* reply the answer when there is none.
ResolveCase(cmd, content, room_name) ==
    IF cmd = "/customer"
    THEN IF content # <<>>
         THEN LET case_number == get_case_number(content)
              IN [sr |-> case_number,
                  calls |-> <<"get_case_number">>,
                  reply |-> IF case_number = False THEN NoValidCaseNumber ELSE <<>>]
         ELSE ResolveFromRoom(room_name)
    ELSE LET case_number == get_case_number(content)
         IN IF case_number # False
            THEN [sr |-> case_number, calls |-> <<"get_case_number">>, reply |-> <<>>]
            ELSE LET r == ResolveFromRoom(room_name)
                 IN [r EXCEPT !.calls = <<"get_case_number">> \o @]

\* The call get_case_details(sr), as it shows in the trace of calls.
Fetch(sr) == "get_case_details " \o sr

\* A case-data handler after its authorization check, c0 the calls made so
\* far: [reply, calls, reads, raised].
CaseBody(cmd, text, c0, room_name, details) ==
    LET content == extract_message(StripToken(cmd), text)
        r == ResolveCase(cmd, content, room_name)
        c1 == c0 \o <<"messages.get", "extract_message">> \o r.calls
    IN IF r.sr = False
       THEN [reply |-> r.reply, calls |-> c1, reads |-> <<>>, raised |-> FALSE]
       ELSE LET c2 == Append(c1, Fetch(r.sr))
            IN IF CaseAbsent(cmd, details)
               THEN [reply |-> NoCaseFound(r.sr), calls |-> c2,
                     reads |-> <<>>, raised |-> FALSE]
               ELSE LET f == Format(cmd, r.sr, details)
                    IN [reply |-> f.reply, calls |-> c2,
                        reads |-> f.reads, raised |-> f.raised]

\* Mutant of CaseHandler: the authorization check made after the lookup.
CaseHandlerLateCheck(cmd, text, person_id, room_name, details) ==
    LET b == CaseBody(cmd, text, <<"get_email", "check_cisco_user">>, room_name, details)
    IN IF ~check_cisco_user(get_email(person_id))
       THEN [b EXCEPT !.reply = AccessLimited, !.raised = FALSE]
       ELSE b

\* A case-data handler: [reply, calls, reads, raised].
CaseHandler(cmd, text, person_id, room_name, details) ==
    LET email == get_email(person_id)
        c0 == <<"get_email", "check_cisco_user">>
    IN IF ~check_cisco_user(email)
       THEN [reply |-> AccessLimited, calls |-> c0, reads |-> <<>>, raised |-> FALSE]
       ELSE CaseBody(cmd, text, c0, room_name, details)

----------------------------------------------------------------------------
(* The other handlers *)

\* Mutant of HelpLines: the loop starts at the last entry and walks back.
RECURSIVE HelpLinesBackwards(_)
HelpLinesBackwards(i) ==
    IF i > Len(commands) THEN <<>>
    ELSE HelpLinesBackwards(i + 1) \o <<"* **", commands[i][1], "**: ", commands[i][2], " \n">>

RECURSIVE HelpLines(_)
HelpLines(i) ==
    IF i > Len(commands) THEN <<>>
    ELSE <<"* **", commands[i][1], "**: ", commands[i][2], " \n">> \o HelpLines(i + 1)

send_help ==
    <<"Hello!  ", "I understand the following commands.  \n",
      "If case number is provided with the command, I will use that case number. If none is provided, I will look in the Spark room name for a case number to use. \n">>
    \o HelpLines(1)

send_echo(text) == extract_message("/echo", text)

send_test == <<"This is a test message.">>

send_feedback(text, person_id, type) ==
    LET content == extract_message("/feedback", text)
    IN IF type = "feedback"
       THEN <<"User ", EmailStr(get_email(person_id)), " provided the following feedback:<br>">> \o content
       ELSE IF type = "reply"
       THEN <<"Thank you. Your feedback has been sent to developers">>
       ELSE <<"False">>

----------------------------------------------------------------------------
(* The dispatcher *)

\* Mutant of FindCommand: the identifier that comes first in the text.
RECURSIVE FindCommandTextOrder(_, _)
FindCommandTextOrder(text, i) ==
    IF i > Len(text) THEN ""
    ELSE IF text[i] \in CommandIds THEN text[i]
    ELSE FindCommandTextOrder(text, i + 1)

\* The loop over commands.items(): the first identifier of the table, from
\* entry i on, that text.find locates; "" when none does.
RECURSIVE FindCommand(_, _)
FindCommand(text, i) ==
    IF i > Len(commands) THEN ""
    ELSE IF Contains(text, commands[i][1]) THEN commands[i][1]
    ELSE FindCommand(text, i + 1)

\* The if/elif chain: the handler run for a command.
HandlerOf(command) ==
    CASE command \in {"", "/help"} -> "send_help"
      [] command = "/echo" -> "send_echo"
      [] command = "/test" -> "send_test"
      [] command = "/title" -> "send_title"
      [] command = "/owner" -> "send_owner"
      [] command = "/description" -> "send_description"
      [] command = "/contract" -> "send_contract"
      [] command = "/customer" -> "send_customer"
      [] command = "/status" -> "send_status"
      [] command = "/rma" -> "send_rma_numbers"
      [] command = "/feedback" -> "send_feedback"
      [] command = "/created" -> "send_created"
      [] command = "/updated" -> "send_updated"
      [] command = "/device" -> "send_device"
      [] OTHER -> "none"

\* The command whose code a handler holds.
CommandOf(handler) ==
    CASE handler = "send_title" -> "/title"
      [] handler = "send_owner" -> "/owner"
      [] handler = "send_description" -> "/description"
      [] handler = "send_contract" -> "/contract"
      [] handler = "send_customer" -> "/customer"
      [] handler = "send_status" -> "/status"
      [] handler = "send_rma_numbers" -> "/rma"
      [] handler = "send_created" -> "/created"
      [] handler = "send_updated" -> "/updated"
      [] handler = "send_device" -> "/device"
      [] OTHER -> ""

CaseHandlers == {HandlerOf(c) : c \in CaseCommands}

Message(room, markdown) == [to |-> room, markdown |-> markdown]

\* Mutant of FromBot: the sender's id, not its email, is looked up in the emails.
FromBotById(person_id) == \E e \in MeEmails : e[1] = person_id

\* Is the message from the bot itself?
FromBot(person_id) == PersonEmail(person_id) \in MeEmails

\* Mutant of FeedbackSends: the sender is answered before the forward.
FeedbackSendsAckFirst(room_id, reply, feedback) ==
    <<Message(room_id, reply), Message(FeedbackRoom, feedback)>>

\* The two spark.messages.create calls of the /feedback branch, in order:
\* the forward inside the branch, then the reply every branch ends with.
FeedbackSends(room_id, reply, feedback) ==
    <<Message(FeedbackRoom, feedback), Message(room_id, reply)>>

\* The messages that were sent when the fail-th spark.messages.create of
\* the request raises (0: none does): the exception ends the request.
Deliver(msgs, fail) ==
    IF fail \in 1..Len(msgs) THEN SubSeq(msgs, 1, fail - 1) ELSE msgs

\* process_incoming_message, every spark.messages.create going through:
\* [out, calls, ran, reads, raised].
process_incoming_message(text, person_id, room_id, room_name, details) ==
    LET c0 == <<"messages.get", "people.me">>
    IN IF FromBot(person_id)
       THEN [out |-> <<>>, calls |-> c0, ran |-> <<>>, reads |-> <<>>, raised |-> FALSE]
       ELSE LET command == FindCommand(text, 1)
                h == HandlerOf(command)
            IN IF h = "send_help"
               THEN [out |-> <<Message(room_id, send_help)>>, calls |-> c0,
                     ran |-> <<h>>, reads |-> <<>>, raised |-> FALSE]
               ELSE IF h = "send_echo"
               THEN [out |-> <<Message(room_id, send_echo(text))>>,
                     calls |-> Append(c0, "extract_message"),
                     ran |-> <<h>>, reads |-> <<>>, raised |-> FALSE]
               ELSE IF h = "send_test"
               THEN [out |-> <<Message(room_id, send_test)>>, calls |-> c0,
                     ran |-> <<h>>, reads |-> <<>>, raised |-> FALSE]
               ELSE IF h = "send_feedback"
               THEN LET reply == send_feedback(text, person_id, "reply")
                        feedback == send_feedback(text, person_id, "feedback")
                    IN [out |-> FeedbackSends(room_id, reply, feedback),
                        calls |-> c0 \o <<"messages.get", "extract_message",
                                          "messages.get", "extract_message", "get_email">>,
                        ran |-> <<h, h>>, reads |-> <<>>, raised |-> FALSE]
               ELSE IF h \in CaseHandlers
               THEN LET r == CaseHandler(CommandOf(h), text, person_id, room_name, details)
                    IN [out |-> IF r.raised THEN <<>> ELSE <<Message(room_id, r.reply)>>,
                        calls |-> c0 \o r.calls, ran |-> <<h>>,
                        reads |-> r.reads, raised |-> r.raised]
               ELSE [out |-> <<Message(room_id, <<>>)>>, calls |-> c0,
                     ran |-> <<>>, reads |-> <<>>, raised |-> FALSE]

----------------------------------------------------------------------------
(* The configuration holder and the webhook create-or-update *)

Conn(token) == [kind |-> "CiscoSparkAPI", access_token |-> token]

Hook(id, name, targetUrl) ==
    [kind |-> "Webhook", id |-> id, name |-> name, targetUrl |-> targetUrl,
     resource |-> "messages", event |-> "created"]

\* The upstream calls that may fail during one setup_webhook.
FailPoints == {"list", "iter", "update", "create"}

\* spark.webhooks.create: [hooks, wh, raised, calls] after the calls made so far.
CreateHook(hs, name, targeturl, F, made) ==
    IF "create" \in F
    THEN [hooks |-> hs, wh |-> None, raised |-> TRUE,
          calls |-> Append(made, "webhooks.create")]
    ELSE LET wh == Hook(Len(hs) + 1, name, targeturl)
         IN [hooks |-> Append(hs, wh), wh |-> wh, raised |-> FALSE,
             calls |-> Append(made, "webhooks.create")]

\* spark.webhooks.update of registration k.
UpdateHook(hs, k, name, targeturl) ==
    [hs EXCEPT ![k] = [@ EXCEPT !.name = name, !.targetUrl = targeturl]]

\* setup_webhook(name, targeturl) against the registrations hs, with the
\* upstream calls in F failing: [hooks, wh, raised, calls].
\*   - webhooks.list() is called outside the try: its failure propagates;
\*   - a failure while iterating, a failing update, and the unbound local wh
\*     read when no registration matched all land in the except clause,
\*     which creates a registration.
setup_webhook(hs, name, targeturl, F) ==
    IF "list" \in F
    THEN [hooks |-> hs, wh |-> None, raised |-> TRUE, calls |-> <<"webhooks.list">>]
    ELSE IF "iter" \in F
    THEN CreateHook(hs, name, targeturl, F, <<"webhooks.list">>)
    ELSE IF \E k \in 1..Len(hs) : hs[k].name = name
    THEN LET k == CHOOSE i \in 1..Len(hs) :
                      hs[i].name = name /\ \A j \in 1..(i - 1) : hs[j].name # name
         IN IF "update" \in F
            THEN CreateHook(hs, name, targeturl, F, <<"webhooks.list", "webhooks.update">>)
            ELSE [hooks |-> UpdateHook(hs, k, name, targeturl),
                  wh |-> UpdateHook(hs, k, name, targeturl)[k],
                  raised |-> FALSE,
                  calls |-> <<"webhooks.list", "webhooks.update">>]
    ELSE CreateHook(hs, name, targeturl, F, <<"webhooks.list">>)

\* Mutant of spark_setup: the connection is built before the token is stored.
spark_setup_old_token(email, token, F) ==
    LET r == setup_webhook(hooks, bot_app_name, bot_url, F)
    IN /\ Len(r.hooks) <= MaxHooks
       /\ spark_token' = token
       /\ bot_email' = email
       /\ spark' = Conn(spark_token)
       /\ hooks' = r.hooks
       /\ webhook' = IF r.raised THEN webhook ELSE r.wh
       /\ last_set' = <<email, token>>

\* Mutant of spark_setup: the globals are assigned after setup_webhook
\* returned, so a failed registration leaves them as they were.
spark_setup_webhook_first(email, token, F) ==
    LET r == setup_webhook(hooks, bot_app_name, bot_url, F)
    IN /\ Len(r.hooks) <= MaxHooks
       /\ spark_token' = IF r.raised THEN spark_token ELSE token
       /\ bot_email' = IF r.raised THEN bot_email ELSE email
       /\ spark' = IF r.raised THEN spark ELSE Conn(token)
       /\ hooks' = r.hooks
       /\ webhook' = IF r.raised THEN webhook ELSE r.wh
       /\ last_set' = <<email, token>>

\* spark_setup(email, token): the globals after it, and whether it raised.
spark_setup(email, token, F) ==
    LET r == setup_webhook(hooks, bot_app_name, bot_url, F)
    IN /\ Len(r.hooks) <= MaxHooks
       /\ spark_token' = token
       /\ bot_email' = email
       /\ spark' = Conn(token)
       /\ hooks' = r.hooks
       /\ webhook' = IF r.raised THEN webhook ELSE r.wh
       /\ last_set' = <<email, token>>

Raised(F) == setup_webhook(hooks, bot_app_name, bot_url, F).raised
SetupCalls(F) == setup_webhook(hooks, bot_app_name, bot_url, F).calls

\* Mutant of config_data: the token is not masked.
config_data_unmasked(email, token) ==
    [SPARK_BOT_EMAIL |-> email, SPARK_BOT_TOKEN |-> token,
     SPARK_BOT_URL |-> bot_url, SPARKBOT_APP_NAME |-> bot_app_name]

\* The body of the configuration endpoint's answer.
config_data(email, token) ==
    LET data == [SPARK_BOT_EMAIL |-> email, SPARK_BOT_TOKEN |-> token,
                 SPARK_BOT_URL |-> bot_url, SPARKBOT_APP_NAME |-> bot_app_name]
    IN [data EXCEPT !.SPARK_BOT_TOKEN = "REDACTED"]

Text(s) == [kind |-> "text", body |-> s]
Json(d) == [kind |-> "json", body |-> d]
ServerError == [kind |-> "error", body |-> "500 Internal Server Error"]
NotReady == Text("Spark Bot not ready.  ")

\* POST bodies: any subset of the two fields.
Bodies ==
    {[SPARK_BOT_TOKEN |-> t, SPARK_BOT_EMAIL |-> e] : t \in Tokens, e \in BotEmails}
    \cup {[SPARK_BOT_TOKEN |-> t] : t \in Tokens}
    \cup {[SPARK_BOT_EMAIL |-> e] : e \in BotEmails}
    \cup {[OTHER_FIELD |-> "x"]}

NoTrace ==
    /\ out' = <<>>
    /\ calls' = <<>>
    /\ ran' = <<>>
    /\ reads' = <<>>

Idle == pc = "serving" /\ req = NoReq

\* Mutant of BotNotReady: the token, not the connection, is tested.
BotNotReadyByToken == spark_token = Unset

\* The test each bot-dependent endpoint starts with.
BotNotReady == spark = None

----------------------------------------------------------------------------
(* Process start: lines 938-943 *)

Main(F) ==
    /\ pc = "main"
    /\ IF spark_token = Unset \/ bot_email = Unset
       THEN /\ F = {}
            /\ pc' = "serving"
            /\ UNCHANGED <<bot_email, spark_token, spark, webhook, hooks, last_set>>
       ELSE /\ spark_setup(bot_email, spark_token, F)
            /\ pc' = IF Raised(F) THEN "crashed" ELSE "serving"
    /\ UNCHANGED <<rooms, req, resp, out, calls, ran, reads>>

----------------------------------------------------------------------------
(* The endpoints *)

\* POST /
ProcessWebhook(text, person_id, room_id, room_name, details, fail) ==
    /\ Idle
    /\ req' = [op |-> "webhook", text |-> text, person_id |-> person_id,
               room_id |-> room_id, room_name |-> room_name, details |-> details,
               send_fail |-> fail]
    /\ IF BotNotReady
       THEN resp' = NotReady /\ NoTrace
       ELSE LET r == process_incoming_message(text, person_id, room_id, room_name, details)
            IN /\ resp' = IF r.raised \/ fail \in 1..Len(r.out)
                          THEN ServerError ELSE Text("")
               /\ out' = Deliver(r.out, fail)
               /\ calls' = r.calls
               /\ ran' = r.ran
               /\ reads' = r.reads
    /\ UNCHANGED <<cfgvars, rooms>>

\* GET /config
ConfigGet ==
    /\ Idle
    /\ req' = [op |-> "config_get"]
    /\ resp' = Json(config_data(bot_email, spark_token))
    /\ NoTrace
    /\ UNCHANGED <<cfgvars, rooms>>

\* POST /config
ConfigPost(post_data, F) ==
    /\ Idle
    /\ req' = [op |-> "config_post", post_data |-> post_data, fail |-> F]
    /\ out' = <<>> /\ ran' = <<>> /\ reads' = <<>>
    /\ IF "SPARK_BOT_TOKEN" \notin DOMAIN post_data \/ "SPARK_BOT_EMAIL" \notin DOMAIN post_data
       THEN /\ F = {}
            /\ resp' = Text("Error: POST Requires both 'SPARK_BOT_TOKEN' and 'SPARK_BOT_EMAIL' to be provided.")
            /\ calls' = <<>>
            /\ UNCHANGED <<bot_email, spark_token, spark, webhook, hooks, last_set>>
       ELSE /\ spark_setup(post_data.SPARK_BOT_EMAIL, post_data.SPARK_BOT_TOKEN, F)
            /\ calls' = SetupCalls(F)
            /\ resp' = IF Raised(F) THEN ServerError
                       ELSE Json(config_data(bot_email', spark_token'))
    /\ UNCHANGED <<pc, rooms>>

\* GET /hello/<email>
message_email(email) ==
    /\ Idle
    /\ req' = [op |-> "hello", email |-> email]
    /\ IF BotNotReady
       THEN resp' = NotReady /\ NoTrace
       ELSE /\ resp' = Text("Message sent to " \o EmailStr(email))
            /\ out' = <<Message(EmailStr(email), <<"Hello!">>)>>
            /\ calls' = <<>> /\ ran' = <<>> /\ reads' = <<>>
    /\ UNCHANGED <<cfgvars, rooms>>

\* GET /health
health_check ==
    /\ Idle
    /\ req' = [op |-> "health"]
    /\ resp' = Text("Up and healthy")
    /\ NoTrace
    /\ UNCHANGED <<cfgvars, rooms>>

\* The response is handed back; the next request may be served.
Respond ==
    /\ req # NoReq
    /\ req' = NoReq
    /\ resp' = NoResp
    /\ NoTrace
    /\ UNCHANGED <<cfgvars, rooms>>

----------------------------------------------------------------------------
(* The case-room creation endpoint *)

RoomId(k) == "room-" \o ToString(k)

Room(case_number, members) == [title |-> <<"SR", case_number>>, members |-> members]

UnknownEmail == <<"nobody", "example.org">>

\* utilities.get_person_id: the platform identity of an email, or False.
get_person_id(email) ==
    IF \E p \in PersonIds : PersonEmail(p) = email
    THEN CHOOSE p \in PersonIds : PersonEmail(p) = email
    ELSE False

\* utilities.room_exists_for_user: the index of the first conversation with
\* the case number in its title and the person as a member, or 0.
room_exists_for_user(rs, case_number, email) ==
    LET hit(k) == Contains(rs[k].title, case_number) /\ get_person_id(email) \in rs[k].members
    IN IF \E k \in 1..Len(rs) : hit(k)
       THEN CHOOSE k \in 1..Len(rs) : hit(k) /\ \A j \in 1..(k - 1) : ~hit(j)
       ELSE 0

\* utilities.create_room, then utilities.create_membership.
create_room(rs, case_number) == Append(rs, Room(case_number, {"p-bot"}))
create_membership(rs, person_id, k) == [rs EXCEPT ![k].members = @ \cup {person_id}]

\* Mutant of RoomFound: the result of room_exists_for_user is not looked at.
RoomNeverFound(room_id) == FALSE

\* if room_id:
RoomFound(room_id) == room_id # 0

\* GET /create/<provided_case_number>/<email>
create(provided_case_number, email) ==
    /\ Idle
    /\ req' = [op |-> "create", provided_case_number |-> provided_case_number,
               email |-> email]
    /\ ran' = <<>> /\ reads' = <<>>
    /\ IF BotNotReady
       THEN resp' = NotReady /\ out' = <<>> /\ calls' = <<>> /\ UNCHANGED rooms
       ELSE LET case_number == get_case_number(<<provided_case_number>>)
                person_id == get_person_id(email)
                found == room_exists_for_user(rooms, case_number, email)
            IN IF case_number = False
               THEN /\ resp' = Text(provided_case_number \o " is not a valid case number")
                    /\ out' = <<>>
                    /\ calls' = <<"get_case_number">>
                    /\ UNCHANGED rooms
               ELSE IF person_id = False
               THEN /\ resp' = Text("No user found with the email address: " \o EmailStr(email))
                    /\ out' = <<>>
                    /\ calls' = <<"get_case_number", "get_person_id">>
                    /\ UNCHANGED rooms
               ELSE IF RoomFound(found)
               THEN /\ resp' = Text("Room already exists; welcome message sent")
                    /\ out' = <<Message(RoomId(found), send_help)>>
                    /\ calls' = <<"get_case_number", "get_person_id", "room_exists_for_user">>
                    /\ UNCHANGED rooms
               ELSE /\ Len(rooms) < MaxRooms
                    /\ rooms' = create_membership(create_room(rooms, case_number),
                                                  person_id, Len(rooms) + 1)
                    /\ resp' = Text("Created room; user added; welcome message sent")
                    /\ out' = <<Message(RoomId(Len(rooms) + 1), send_help)>>
                    /\ calls' = <<"get_case_number", "get_person_id", "room_exists_for_user",
                                  "create_room", "create_membership">>
    /\ UNCHANGED cfgvars

----------------------------------------------------------------------------
(* The whole service, from process start *)

InitHooks ==
    {<<>>,
     <<Hook(1, bot_app_name, OldUrl)>>,
     <<Hook(1, OtherAppName, OldUrl)>>,
     <<Hook(1, OtherAppName, OldUrl), Hook(2, bot_app_name, OldUrl)>>}

Init ==
    /\ pc = "main"
    /\ bot_email \in BotEmails \cup {Unset}
    /\ spark_token \in Tokens \cup {Unset}
    /\ spark = None
    /\ webhook = None
    /\ hooks \in InitHooks
    /\ rooms = <<>>
    /\ last_set = <<Unset, Unset>>
    /\ req = NoReq
    /\ resp = NoResp
    /\ out = <<>>
    /\ calls = <<>>
    /\ ran = <<>>
    /\ reads = <<>>

\* Inputs of the endpoints when the whole service is explored.
SomeTexts == {<<>>, <<"/help">>, <<"/title", "600000001">>, <<"/feedback", "please">>}
SomeDetails == {CaseNone, Case(FullDetail)}
RoomIds == {"room-A"}
CreateCases == {"600000001", "tomorrow"}
CreateEmails == {PersonEmail("p-cisco"), PersonEmail("p-guest"), UnknownEmail}

Next ==
    \/ \E F \in SUBSET FailPoints : Main(F)
    \/ /\ Idle
       /\ \E text \in SomeTexts, person_id \in PersonIds, room_id \in RoomIds,
             room_name \in RoomNames, details \in SomeDetails :
             ProcessWebhook(text, person_id, room_id, room_name, details, 0)
    \/ ConfigGet
    \/ /\ Idle
       /\ \E post_data \in Bodies, F \in SUBSET FailPoints : ConfigPost(post_data, F)
    \/ /\ Idle
       /\ \E email \in CreateEmails : message_email(email)
    \/ health_check
    \/ /\ Idle
       /\ \E c \in CreateCases, email \in CreateEmails : create(c, email)
    \/ Respond

Spec == Init /\ [][Next]_vars

----------------------------------------------------------------------------
(* The dispatcher of a configured bot, over every message text *)

InitMsg ==
    /\ pc = "serving"
    /\ bot_email = "bot@sparkbot.io"
    /\ spark_token = "tokA"
    /\ spark = Conn(spark_token)
    /\ webhook = Hook(1, bot_app_name, bot_url)
    /\ hooks = <<Hook(1, bot_app_name, bot_url)>>
    /\ rooms = <<>>
    /\ last_set = <<bot_email, spark_token>>
    /\ req = NoReq
    /\ resp = NoResp
    /\ out = <<>>
    /\ calls = <<>>
    /\ ran = <<>>
    /\ reads = <<>>

NextMsg ==
    \/ /\ Idle
       /\ \E text \in Texts, person_id \in PersonIds, room_id \in RoomIds,
             room_name \in RoomNames, details \in CaseResults :
             ProcessWebhook(text, person_id, room_id, room_name, details, 0)
    \/ Respond

SpecMsg == InitMsg /\ [][NextMsg]_vars

----------------------------------------------------------------------------
(* The field formatting of a configured bot, over the shapes of a record *)

MaxRmas == 2       \* RMA identifiers a record lists
MaxAgeDays == 4    \* days between a record's last update and now

\* The record r without the key f.
Without(r, f) == [g \in DOMAIN r \ {f} |-> r[g]]

RmaIds(n) == [i \in 1..n |-> "A" \o ToString(i)]

\* RMAS: null, one identifier as a plain value, or a list of identifiers.
RmaValues ==
    {JNull, Obj([ID |-> Str("A1")])}
    \cup {Obj([ID |-> List(RmaIds(n))]) : n \in 1..MaxRmas}

RmaRecords == {[FullDetail EXCEPT !.RMAS = x] : x \in RmaValues}

\* SERIAL_NUMBER and DEVICE_NAME: a value, an empty string, null, or no key.
DeviceRecords ==
    LET vals(v) == {Str(v), Str(""), JNull}
        both == {[FullDetail EXCEPT !.SERIAL_NUMBER = s, !.DEVICE_NAME = h] :
                    s \in vals("FOC1234"), h \in vals("edge-1")}
    IN both
       \cup {Without(r, "SERIAL_NUMBER") : r \in both}
       \cup {Without(r, "DEVICE_NAME") : r \in both}
       \cup {Without(Without(r, "SERIAL_NUMBER"), "DEVICE_NAME") : r \in both}

\* The three optional contact groups, each a value or null.
CustomerRecords ==
    {[FullDetail EXCEPT !.CONTACT_EMAIL_IDS = e,
                        !.CONTACT_BUSINESS_PHONE_NUMBERS = b,
                        !.CONTACT_MOBILE_PHONE_NUMBERS = m] :
        e \in {JNull, Obj([ID |-> Str("dan@example.com")])},
        b \in {JNull, Obj([ID |-> Str("+1 555 0100")])},
        m \in {JNull, Obj([ID |-> Str("+1 555 0199")])}}

\* A last update at any hour of the last MaxAgeDays days (or later today),
\* of an open and of a closed case.
UpdatedRecords ==
    {[FullDetail EXCEPT !.UPDATED_DATE = Date(d, h), !.STATUS = Str(st)] :
        d \in (Now \div 24 - MaxAgeDays)..(Now \div 24), h \in 0..23,
        st \in {"Closed", "Customer Updated"}}

FmtDetails ==
    {Case(r) : r \in RmaRecords \cup DeviceRecords \cup CustomerRecords
                     \cup UpdatedRecords}

FmtTexts == {<<c, "600000001">> : c \in {"/rma", "/device", "/customer", "/updated"}}

NextFmt ==
    \/ /\ Idle
       /\ \E text \in FmtTexts, person_id \in PersonIds, room_id \in RoomIds,
             details \in FmtDetails :
             ProcessWebhook(text, person_id, room_id, <<"please">>, details, 0)
    \/ Respond

SpecFmt == InitMsg /\ [][NextFmt]_vars

----------------------------------------------------------------------------
(* The dispatcher of a configured bot when the platform refuses a message *)

\* Which spark.messages.create of a request raises: none, the first, the second.
SendFails == 0..2

NextSend ==
    \/ /\ Idle
       /\ \E text \in Texts, person_id \in PersonIds, room_id \in RoomIds,
             fail \in SendFails :
             ProcessWebhook(text, person_id, room_id, <<"please">>, Case(FullDetail), fail)
    \/ Respond

SpecSend == InitMsg /\ [][NextSend]_vars

----------------------------------------------------------------------------
(* Properties of the dispatcher and the case-data handlers *)

\* An inbound message the bot did not author, handled by a configured bot.
Inbound ==
    /\ req.op = "webhook"
    /\ spark # None
    /\ PersonEmail(req.person_id) \notin MeEmails

\* The identifiers of the table that occur in the text, as table positions.
Occurring(text) == {i \in 1..Len(commands) : Contains(text, commands[i][1])}

\* The handler the dispatch table names for an identifier.
HandlerTable ==
    [c \in CommandIds |->
        CASE c = "/rma" -> "send_rma_numbers"
          [] c = "/title" -> "send_title"
          [] c = "/description" -> "send_description"
          [] c = "/owner" -> "send_owner"
          [] c = "/contract" -> "send_contract"
          [] c = "/customer" -> "send_customer"
          [] c = "/status" -> "send_status"
          [] c = "/device" -> "send_device"
          [] c = "/created" -> "send_created"
          [] c = "/updated" -> "send_updated"
          [] c = "/feedback" -> "send_feedback"
          [] c = "/echo" -> "send_echo"
          [] c = "/help" -> "send_help"
          [] c = "/test" -> "send_test"]

\* C1: for every inbound message not authored by the bot, the handler that
\* runs, and the only one, is the handler of the first identifier of the
\* command table, in declared order, that occurs in the text; the help
\* handler when no identifier occurs or that identifier is /help.
C1_FirstMatchInTableOrder ==
    Inbound =>
        /\ Len(ran) >= 1
        /\ \A k \in 1..Len(ran) :
              IF Occurring(req.text) = {}
              THEN ran[k] = "send_help"
              ELSE \E i \in Occurring(req.text) :
                      /\ \A j \in Occurring(req.text) : i <= j
                      /\ ran[k] = HandlerTable[commands[i][1]]

\* A text holding two identifiers, the later of the table first.
C1_Witness ==
    /\ Inbound
    /\ req.text = <<"/echo", "/title">>
    /\ ran = <<"send_title">>

\* C2: a message whose sender email is one of the bot account's own emails
\* gets no message sent anywhere and runs no handler, whatever its text.
C2_OwnMessagesIgnored ==
    (req.op = "webhook" /\ spark # None /\ PersonEmail(req.person_id) \in MeEmails)
        => (out = <<>> /\ ran = <<>>)

C2_Witness ==
    /\ req.op = "webhook"
    /\ spark # None
    /\ PersonEmail(req.person_id) \in MeEmails
    /\ req.text = <<"/feedback", "please">>
    /\ out = <<>>

\* The messages of the request sent to a conversation.
SentTo(room) == {k \in 1..Len(out) : out[k].to = room}

RanHandler(h) == \E k \in 1..Len(ran) : ran[k] = h

\* C3: every inbound message not authored by the bot gets exactly one reply
\* in its conversation, whichever handler and branch; /feedback sends one
\* more message, to the feedback conversation, and no other command does.
C3_ExactlyOneReply ==
    Inbound =>
        /\ Cardinality(SentTo(req.room_id)) = 1
        /\ Cardinality(SentTo(FeedbackRoom)) =
              IF RanHandler("send_feedback") THEN 1 ELSE 0

\* A case-data handler ran for the request.
CaseRequest == Inbound /\ \E k \in 1..Len(ran) : ran[k] \in CaseHandlers

\* The command of the case-data handler that ran.
RanCommand == CommandOf(ran[1])

MadeCall(S) == \E k \in 1..Len(calls) : calls[k] \in S

Fetches == {Fetch(n) : n \in CaseNumbers}

\* C4: when the sender fails the allowed-domain check, a case-data handler
\* answers with the access-limited message and extracts no case number,
\* looks up no conversation name and fetches no case.
C4_DeniedBeforeAnyLookup ==
    (CaseRequest /\ PersonEmail(req.person_id)[2] # "cisco.com") =>
        /\ out = <<Message(req.room_id, AccessLimited)>>
        /\ ~MadeCall({"get_case_number", "get_room_name"} \cup Fetches)

C4_Witness ==
    /\ CaseRequest
    /\ PersonEmail(req.person_id)[2] # "cisco.com"
    /\ req.text = <<"/updated", "600000001">>
    /\ Len(out) = 1

\* The sender passes the allowed-domain check.
Allowed == PersonEmail(req.person_id)[2] = "cisco.com"

\* The case number the resolution policy names: the one in the text after
\* the command token is stripped, else the one in the conversation's name.
InText == get_case_number(extract_message(RanCommand, req.text))
InRoomName == get_case_number(req.room_name)
PolicyCase == IF InText # False THEN InText ELSE InRoomName

\* C5: every case-data command resolves the case number by the one policy;
\* a remainder that holds no case number falls back to the conversation's
\* name, whether the remainder is empty or not.
C5_OneResolutionPolicy ==
    (CaseRequest /\ Allowed /\ PolicyCase # False) =>
        /\ MadeCall({Fetch(PolicyCase)})
        /\ ~MadeCall(Fetches \ {Fetch(PolicyCase)})

\* C6: when neither the text nor the conversation's name holds a case
\* number, every case-data command answers with the one no-case-number
\* message and fetches no case.
C6_NoCaseNumberMessage ==
    (CaseRequest /\ Allowed /\ PolicyCase = False) =>
        /\ out = <<Message(req.room_id, NoCaseNumber)>>
        /\ ~MadeCall(Fetches)

NotFoundValues == {CaseNone, CaseFalse, CaseEmpty}

\* C7: when a case number is resolved and the backend reports no such case
\* (None, False or an empty record), the answer is 'No case was found for
\* SR <number>' and no field of the record is read.
C7_NotFoundReadsNothing ==
    (CaseRequest /\ \E n \in CaseNumbers : MadeCall({Fetch(n)})
                 /\ req.details \in NotFoundValues) =>
        /\ \E n \in CaseNumbers :
              MadeCall({Fetch(n)}) /\ out = <<Message(req.room_id, NoCaseFound(n))>>
        /\ reads = <<>>

----------------------------------------------------------------------------
(* Properties of the configuration holder and the endpoints *)

NeverSet == last_set = <<Unset, Unset>>

ConfigRequest == req.op \in {"config_get", "config_post"}

\* C8: every answer of the configuration endpoint (a GET, the echo of a
\* successful POST) carries the most recently set email and 'REDACTED' as
\* the token; no answer of the endpoint holds a token that was set.
C8_TokenNeverExposed ==
    ConfigRequest =>
        IF resp.kind = "json"
        THEN /\ resp.body.SPARK_BOT_EMAIL = IF NeverSet THEN bot_email ELSE last_set[1]
             /\ resp.body.SPARK_BOT_TOKEN = "REDACTED"
             /\ \A f \in DOMAIN resp.body : resp.body[f] \notin Tokens
        ELSE resp.body \notin Tokens

\* A read after the credentials were set.
C8_Witness ==
    /\ req.op = "config_get"
    /\ resp.kind = "json"
    /\ last_set = <<"bot2@sparkbot.io", "tokB">>
    /\ spark_token = "tokB"
    /\ resp.body.SPARK_BOT_EMAIL = "bot2@sparkbot.io"

\* The upstream registrations named after the app.
OwnHooks == {k \in 1..Len(hooks) : hooks[k].name = bot_app_name}

\* C9: from an upstream state with at most one registration named after the
\* app, any sequence of configuration updates, failing upstream calls
\* included, leaves at most one registration with that name.
C9_AtMostOneRegistration == Cardinality(OwnHooks) <= 1

\* C10: a process started without credentials is not ready, and until the
\* first configuration update the webhook, direct-message and room-creation
\* endpoints answer with the not-ready notice and call neither the platform
\* nor the case backend.
C10_NotReadyUntilConfigured ==
    (pc = "serving" /\ NeverSet) =>
        /\ spark = None
        /\ rooms = <<>>
        /\ req.op \in {"webhook", "hello", "create"} =>
              (resp = NotReady /\ out = <<>> /\ calls = <<>> /\ ran = <<>>)

\* A command message delivered to a bot started with a token but no email.
C10_Witness ==
    /\ pc = "serving"
    /\ NeverSet
    /\ spark_token # Unset
    /\ req.op = "webhook"
    /\ req.text = <<"/title", "600000001">>
    /\ resp = NotReady

----------------------------------------------------------------------------
(* Properties of the configuration update *)

\* The fields a configuration POST must carry.
BothFields(post_data) ==
    {"SPARK_BOT_TOKEN", "SPARK_BOT_EMAIL"} \subseteq DOMAIN post_data

\* The step that serves a configuration POST.
ConfigPostStep == req = NoReq /\ req'.op = "config_post"

\* C11: a configuration POST without the token field or without the email
\* field answers with an error text, leaves the stored email, token,
\* connection and webhook handle as they were and calls nothing upstream; a
\* POST with both fields stores the posted email and token, rebuilds the
\* connection with the posted token and starts the webhook create-or-update
\* (the listing first, then an update or a create for the public URL).
C11_ConfigPostAllOrNothing ==
    [][ConfigPostStep =>
        IF ~BothFields(req'.post_data)
        THEN /\ resp'.kind = "text"
             /\ resp'.body = "Error: POST Requires both 'SPARK_BOT_TOKEN' and 'SPARK_BOT_EMAIL' to be provided."
             /\ UNCHANGED <<bot_email, spark_token, spark, webhook, hooks>>
             /\ calls' = <<>>
        ELSE /\ bot_email' = req'.post_data.SPARK_BOT_EMAIL
             /\ spark_token' = req'.post_data.SPARK_BOT_TOKEN
             /\ spark' = Conn(req'.post_data.SPARK_BOT_TOKEN)
             /\ calls'[1] = "webhooks.list"
             /\ resp' # ServerError =>
                   /\ webhook'.name = bot_app_name
                   /\ webhook'.targetUrl = bot_url
                   /\ \E k \in 1..Len(hooks') : hooks'[k] = webhook'
                   /\ calls'[Len(calls')] \in {"webhooks.update", "webhooks.create"}
    ]_vars

\* A POST with both fields that replaced other credentials, and before it a
\* POST with one field that changed nothing (last_set is still its value).
C11_Witness ==
    /\ req.op = "config_post"
    /\ BothFields(req.post_data)
    /\ req.post_data.SPARK_BOT_TOKEN = "tokB"
    /\ spark = Conn("tokB")
    /\ bot_email = "bot2@sparkbot.io"
    /\ webhook # None
    /\ webhook.targetUrl = bot_url
    /\ resp.kind = "json"

----------------------------------------------------------------------------
(* Properties of the help listing *)

\* m is the two-sentence greeting followed by one line per entry of the
\* command table, the i-th line naming the i-th entry and its help text.
IsListing(m) ==
    /\ Len(m) = 3 + 5 * Len(commands)
    /\ m[1] = "Hello!  "
    /\ m[2] = "I understand the following commands.  \n"
    /\ \A i \in 1..Len(commands) :
          SubSeq(m, 5 * i - 1, 5 * i + 3)
             = <<"* **", commands[i][1], "**: ", commands[i][2], " \n">>

\* The request posted the help listing: the dispatcher chose send_help, or
\* the room-creation endpoint welcomed the user.
HelpPosted ==
    \/ req.op = "webhook" /\ ran = <<"send_help">>
    \/ req.op = "create" /\ out # <<>>

\* C12: the help listing has exactly one line per entry of the command
\* table, in the table's order, and it is the same listing whether it was
\* selected because no identifier matched, by '/help', or by the
\* room-creation endpoint.
C12_HelpListsTheTable ==
    HelpPosted =>
        /\ Len(out) = 1
        /\ IsListing(out[1].markdown)
        /\ out[1].markdown = send_help

\* Help selected by its identifier.
C12_Witness ==
    /\ req.op = "webhook"
    /\ req.text = <<"/help">>
    /\ ran = <<"send_help">>
    /\ Len(out) = 1
    /\ out[1].markdown[4 + 5 * (Len(commands) - 1) + 1] = "/test"

----------------------------------------------------------------------------
(* Properties of the field formatting *)

\* The handler h ran for an allowed sender and formatted a case record.
FoundRecord(h) ==
    /\ Inbound
    /\ Allowed
    /\ ran = <<h>>
    /\ req.details.t = "case"
    /\ MadeCall(Fetches)

\* The record the handler formatted.
Record == req.details.v

\* The number of RMA identifiers the record carries.
RmaCount(x) ==
    IF ~Truthy(x) THEN 0
    ELSE IF x.v.ID.t = "list" THEN Len(x.v.ID.v)
    ELSE 1

\* C13: for a found record the rma reply goes by the number of RMA
\* identifiers: 'The RMAs ... are' for more than one, 'The RMA ... is' for
\* exactly one, be it a plain value or a list of one, and 'There are no
\* RMAs' for none.
C13_RmaPhrasingByCount ==
    FoundRecord("send_rma_numbers") =>
        /\ Len(out) = 1
        /\ LET m == out[1].markdown
                n == RmaCount(Record.RMAS)
           IN IF n > 1 THEN m[1] = "The RMAs for SR " /\ m[3] = " are: "
              ELSE IF n = 1 THEN m[1] = "The RMA for SR " /\ m[3] = " is: "
              ELSE m[1] = "There are no RMAs for SR "

\* The case number the handler fetched.
FetchedCase == CHOOSE n \in CaseNumbers : MadeCall({Fetch(n)})

\* The field is missing from the record or empty.
Absent(r, f) == f \notin DOMAIN r \/ ~Truthy(r[f])

SerialLine ==
    IF Absent(Record, "SERIAL_NUMBER")
    THEN <<"Device serial number not provided">>
    ELSE <<"Device serial number for SR ", FetchedCase, " is: ", Record.SERIAL_NUMBER.v>>

HostnameLine ==
    IF Absent(Record, "DEVICE_NAME")
    THEN <<"<br>Device hostname not provided">>
    ELSE <<"<br>Device hostname is ", Record.DEVICE_NAME.v>>

\* C14: for every found record the device reply is two lines, the serial
\* number's and the hostname's, in all four combinations of each field
\* being there or absent (missing from the record, or empty); an absent
\* field reads 'not provided' and nothing raises.
C14_DeviceAlwaysTwoLines ==
    FoundRecord("send_device") =>
        /\ resp # ServerError
        /\ out = <<Message(req.room_id, SerialLine \o HostnameLine)>>

\* Hours between the record's last update and now.
Elapsed == Now - (Record.UPDATED_DATE.d * 24 + Record.UPDATED_DATE.h)

\* The last segment of the reply.
Closing(m) == m[Len(m)]

HasSegment(m, x) == \E k \in 1..Len(m) : m[k] = x

\* C15: for a found record the updated reply says 'since case closure'
\* when the status is Closed, whatever the elapsed time; for any other
\* status it says 'since last update', in bold exactly when more than
\* three days have elapsed (three days to the hour are not bold).
C15_BoldOnlyPastThreeDays ==
    FoundRecord("send_updated") =>
        /\ Len(out) = 1
        /\ LET m == out[1].markdown
           IN IF Record.STATUS = Str("Closed")
              THEN /\ Closing(m) = " since case closure"
                   /\ ~HasSegment(m, "<br><b>")
              ELSE IF Elapsed > 72
              THEN /\ Closing(m) = " since last update</b>"
                   /\ HasSegment(m, "<br><b>")
              ELSE /\ Closing(m) = " since last update"
                   /\ ~HasSegment(m, "<br><b>")

\* An open case last updated three days ago to the hour: not bold.
C15_Witness ==
    /\ FoundRecord("send_updated")
    /\ Record.STATUS = Str("Customer Updated")
    /\ Elapsed = 72
    /\ Closing(out[1].markdown) = " since last update"

\* The line of an optional contact group: nothing when the group is null.
ContactLine(label, x) ==
    IF x = JNull THEN <<>> ELSE <<label, x.v.ID.v>>

----------------------------------------------------------------------------
(* Properties of the case-room creation endpoint *)

\* The step that serves a room-creation request of a ready bot.
CreateStep == req = NoReq /\ req'.op = "create" /\ spark # None

\* The conversations of rs for case number c that hold person p.
RoomsOf(rs, c, p) ==
    {k \in 1..Len(rs) : Contains(rs[k].title, c) /\ p \in rs[k].members}

\* C17: on the room-creation endpoint of a ready bot, an invalid case
\* number or an email without a platform identity creates no room and no
\* membership and posts nothing; otherwise a conversation for the case
\* number with the identity as a member exists afterwards (the one there
\* was is reused and nothing is created, or one is created and the identity
\* added), and the help listing is posted into it exactly once.
C17_CreateFindsOrCreatesRoom ==
    [][CreateStep =>
        LET c == req'.provided_case_number
            e == req'.email
        IN IF c \notin CaseNumbers \/ ~(\E p \in PersonIds : PersonEmail(p) = e)
           THEN rooms' = rooms /\ out' = <<>>
           ELSE LET p == CHOOSE q \in PersonIds : PersonEmail(q) = e
                IN /\ \E k \in RoomsOf(rooms', c, p) :
                         out' = <<Message(RoomId(k), send_help)>>
                   /\ IF RoomsOf(rooms, c, p) # {}
                      THEN rooms' = rooms
                      ELSE /\ Len(rooms') = Len(rooms) + 1
                           /\ SubSeq(rooms', 1, Len(rooms)) = rooms
                           /\ RoomsOf(rooms', c, p) = {Len(rooms')}
    ]_vars

\* A second request for the same case and person: the room is reused.
C17_Witness ==
    /\ req.op = "create"
    /\ req.provided_case_number = "600000001"
    /\ req.email = PersonEmail("p-guest")
    /\ resp = Text("Room already exists; welcome message sent")
    /\ Cardinality(RoomsOf(rooms, "600000001", "p-guest")) = 1
    /\ Len(out) = 1

----------------------------------------------------------------------------
(* Properties of the webhook registration *)

\* A configuration POST that reached setup_webhook.
SetupRequest == req.op = "config_post" /\ BothFields(req.post_data)

\* The number of upstream calls of the request named c.
CallCount(c) == Cardinality({k \in 1..Len(calls) : calls[k] = c})

\* C18: when the listing of the registrations fails in setup_webhook, be
\* it at the list call or while its result is iterated, the caller sees no
\* failure: exactly one create call is made, for the configured public URL
\* (and the create itself goes through).
C18_ListingFailureFallsToCreate ==
    (SetupRequest /\ req.fail \cap {"list", "iter"} # {} /\ "create" \notin req.fail) =>
        /\ resp # ServerError
        /\ CallCount("webhooks.create") = 1
        /\ webhook.name = bot_app_name
        /\ webhook.targetUrl = bot_url

\* C19: a configuration update is not atomic.  When the webhook
\* registration fails, the posted email and token are stored and the
\* connection is the one built from the posted token, while the webhook
\* handle is the one held before; the bot is ready from then on, and a
\* ready bot serves webhook deliveries instead of answering 'not ready'.
C19_FailedUpdateKeepsNewCredentials ==
    /\ [][(ConfigPostStep /\ BothFields(req'.post_data) /\ resp' = ServerError) =>
            /\ bot_email' = req'.post_data.SPARK_BOT_EMAIL
            /\ spark_token' = req'.post_data.SPARK_BOT_TOKEN
            /\ spark' = Conn(req'.post_data.SPARK_BOT_TOKEN)
            /\ webhook' = webhook
         ]_vars
    /\ []((req.op = "webhook" /\ spark # None) => resp # NotReady)

\* A bot started without credentials, made ready by an update whose
\* registration failed, serving a delivery with no webhook handle.
C19_Witness ==
    /\ pc = "serving"
    /\ webhook = None
    /\ spark = Conn("tokB")
    /\ spark_token = "tokB"
    /\ req.op = "webhook"
    /\ req.text = <<"/help">>
    /\ Len(out) = 1

----------------------------------------------------------------------------
(* Properties of the feedback command *)

FeedbackRequest == Inbound /\ RanHandler("send_feedback")

Forward == Message(FeedbackRoom, send_feedback(req.text, req.person_id, "feedback"))
Acknowledgment == Message(req.room_id, send_feedback(req.text, req.person_id, "reply"))

\* C20: for '/feedback' the message to the feedback conversation is sent
\* before the acknowledgment to the sender, for any sender (the allowed-
\* domain check does not apply); so when the forward fails nothing is sent
\* and the sender gets no acknowledgment.
C20_ForwardBeforeAcknowledgment ==
    FeedbackRequest =>
        CASE req.send_fail = 0 -> out = <<Forward, Acknowledgment>>
          [] req.send_fail = 1 -> out = <<>> /\ resp = ServerError
          [] OTHER -> out = <<Forward>> /\ resp = ServerError

\* A sender outside the allowed domain whose feedback could not be forwarded.
C20_Witness ==
    /\ FeedbackRequest
    /\ ~Allowed
    /\ req.text = <<"/feedback", "please">>
    /\ req.send_fail = 1
    /\ out = <<>>
    /\ ran = <<"send_feedback", "send_feedback">>
====
